---- MODULE Spec2Model ----
(***************************************************************************)
(* Model of chat-analyser: the /chat/ endpoint with its bounded retry     *)
(* loop (api/main.py), the chunk-and-merge analysis (core/analyser.py)    *)
(* and the context registry with its write path (core/utils.py,           *)
(* config.py).                                                            *)
(*                                                                         *)
(* Abstractions.  A user identifier is a small integer i, a message is    *)
(* the integer 100 + i (so that the two kinds of list stay apart).        *)
(* A completion response body is a sequence of characters over Alphabet:  *)
(* "{" and "}" are the braces, "n" is any other text, "a" and "b" each    *)
(* stand for the member list of one complete analysis result.  An         *)
(* exception is a record [type, msg].                                     *)
(***************************************************************************)
EXTENDS Integers, Sequences, FiniteSets, TLC

\* ------------------------------------------------------------------ bounds
MaxAttempts == 3      \* max_attempts of a request ranges over 0..MaxAttempts
MaxLen == 4           \* direct calls of the core: 0..MaxLen messages
MaxChunk == 3         \* direct calls of the core: chunk_size in 1..MaxChunk
MaxBody == 5          \* completion response bodies: at most MaxBody characters
MaxWrites == 1        \* number of /context/ requests in one behaviour
MaxLineWrites == 2    \* context writes of a behaviour of WriteSpec

\* --------------------------------------------------------------- constants
DefaultChunkSize == 30
MISTRAL_MODEL == "mistral-tiny-latest"
CustomModel == "mistral-large-latest"
MaxAttemptsExceeded == "Max attempts exceeded"

None == [type |-> "None", msg |-> ""]
NoFile == "NoFile"
NoResponse == [summary |-> "NoResponse", users_feedback |-> << >>]

ContextTypes == {"party", "work"}
InitialText == "t1"
Texts == {"t2"}
Alphabet == {"{", "}", "n", "a", "b"}
ResultTokens == {"a", "b"}

\* ----------------------------------------------------------------- helpers
Range(s) == {s[j] : j \in 1..Len(s)}
Min(x, y) == IF x < y THEN x ELSE y

RECURSIVE SeqsUpTo(_, _)
SeqsUpTo(S, n) ==
    IF n = 0 THEN {<< >>}
    ELSE LET shorter == SeqsUpTo(S, n - 1)
         IN  shorter \cup {Append(s, x) : s \in {t \in shorter : Len(t) = n - 1}, x \in S}

RECURSIVE Flatten(_)
Flatten(ss) == IF ss = << >> THEN << >> ELSE Head(ss) \o Flatten(Tail(ss))

\* users 1..n and messages 101..100+n, in order
UserList(n) == [j \in 1..n |-> j]
MessageList(n) == [j \in 1..n |-> 100 + j]

\* ------------------------------------------------------------- exceptions
ContextNotFound == [type |-> "ValueError", msg |-> "Context type not among existing context"]
SubstringNotFound == [type |-> "ValueError", msg |-> "substring not found"]
InvalidJson == [type |-> "ValidationError", msg |-> "Invalid JSON"]
SchemaMismatch == [type |-> "ValidationError", msg |-> "Field required"]
FileNotFound == [type |-> "FileNotFoundError", msg |-> "No such file or directory"]
PermissionDenied == [type |-> "PermissionError", msg |-> "Permission denied"]
TransportError == [type |-> "Exception", msg |-> "API Error"]
DiskFull == [type |-> "OSError", msg |-> "No space left on device"]

\* `except ValueError` catches ValueError and its subclass ValidationError
IsValueError(e) == e.type \in {"ValueError", "ValidationError"}

\* ------------------------------------------------------ api/models.py values
UserFeedback(summary, emoji) == [summary |-> summary, emoji |-> emoji]
ConversationAnalysisResponse(summary, users_feedback) ==
    [summary |-> summary, users_feedback |-> users_feedback]

\* the analysis result that the member list r of a response body denotes
ResultOf(r) ==
    ConversationAnalysisResponse(r,
        IF r = "a" THEN << >> ELSE <<UserFeedback(0, "e")>>)

\* ------------------------------------------------------ core/analyser.py
\* chunks = [messages[i : i + chunk_size] for i in range(0, len(messages), chunk_size)]
Slice(s, lo, hi) == SubSeq(s, lo + 1, Min(hi, Len(s)))
RangeStep_Inclusive(n, step) == {j \in 0..n : j % step = 0}
RangeStep(n, step) == {j \in 0..(n - 1) : j % step = 0}
Chunks(messages, chunk_size) ==
    LET starts == RangeStep(Len(messages), chunk_size)
    IN  [j \in 1..Cardinality(starts) |->
            Slice(messages, (j - 1) * chunk_size, (j - 1) * chunk_size + chunk_size)]

\* if len(chunks) == 1
IsSingleChunk(chunks) == Len(chunks) = 1

\* for i, chunk in enumerate(chunks): the chunk of pass i (i from 0)
ChunkAt_Reversed(chunks, i) == chunks[Len(chunks) - i]
ChunkAt(chunks, i) == chunks[i + 1]

\* for i, chunk in enumerate(chunks): is there a chunk after chunk i
MoreChunks_SkipLast(i, chunks) == i + 2 < Len(chunks)
MoreChunks(i, chunks) == i + 1 < Len(chunks)

\* str.index / str.rindex: position (1-based) of the first / last c, 0 when absent
Index(s, c) ==
    IF \E j \in 1..Len(s) : s[j] = c
    THEN CHOOSE j \in 1..Len(s) : s[j] = c /\ \A h \in 1..(j - 1) : s[h] # c
    ELSE 0
RIndex(s, c) ==
    IF \E j \in 1..Len(s) : s[j] = c
    THEN CHOOSE j \in 1..Len(s) : s[j] = c /\ \A h \in (j + 1)..Len(s) : s[h] # c
    ELSE 0

\* chat_response[chat_response.index("{") : chat_response.rindex("}") + 1]
HasBraces_OpenOnly(body) == Index(body, "{") # 0
HasBraces(body) == Index(body, "{") # 0 /\ RIndex(body, "}") # 0
Extract_FirstClose(body) == SubSeq(body, Index(body, "{"), Index(body, "}"))
Extract(body) == SubSeq(body, Index(body, "{"), RIndex(body, "}"))

\* ConversationAnalysisResponse.model_validate_json
IsValidResult(doc) == Len(doc) = 3 /\ doc[1] = "{" /\ doc[3] = "}" /\ doc[2] \in ResultTokens
IsJsonObject(doc) == IsValidResult(doc) \/ doc = <<"{", "}">>
model_validate_json(doc) == ResultOf(doc[2])
ValidationErrorOf(doc) == IF IsJsonObject(doc) THEN SchemaMismatch ELSE InvalidJson

\* analysis.model_dump_json(indent=2)
model_dump_json(analysis) == <<"{", analysis.summary, "}">>

\* what the clean-and-parse lines do with a response body:
\* [ok |-> TRUE, value |-> result] or [ok |-> FALSE, value |-> exception]
ParseResponse(body) ==
    IF ~HasBraces(body) THEN [ok |-> FALSE, value |-> SubstringNotFound]
    ELSE IF IsValidResult(Extract(body))
         THEN [ok |-> TRUE, value |-> model_validate_json(Extract(body))]
         ELSE [ok |-> FALSE, value |-> ValidationErrorOf(Extract(body))]

format_user_prompt(users, conversations) ==
    [users |-> users, conversations |-> conversations]

ChunkSystemPrompt(base, i, total, chunk_size, nmessages) ==
    [base |-> base, kind |-> "chunk", index |-> i + 1, total |-> total,
     from |-> chunk_size * i, to |-> chunk_size * (i + 1), of |-> nmessages]

MergeSystemPrompt(base, total) ==
    [base |-> base, kind |-> "merge", total |-> total]

SingleSystemPrompt(base) == [base |-> base, kind |-> "single"]

\* chunk_summaries / merge_user_prompt
ChunkSummaries_Reversed(chunk_analyses) ==
    [j \in 1..Len(chunk_analyses) |->
        [label |-> j,
         body |-> model_dump_json(chunk_analyses[Len(chunk_analyses) + 1 - j])]]
ChunkSummaries(chunk_analyses) ==
    [j \in 1..Len(chunk_analyses) |->
        [label |-> j, body |-> model_dump_json(chunk_analyses[j])]]
MergeUserPrompt(users, chunk_analyses) ==
    [users |-> users, sections |-> ChunkSummaries(chunk_analyses)]

\* ------------------------------------------------------------ api/main.py
\* while attempts < request.max_attempts
LoopCondition_OneMore(attempts, max_attempts) == attempts <= max_attempts
LoopCondition(attempts, max_attempts) == attempts < max_attempts

\* str(last_error) if last_error else "Max attempts exceeded"
DegradedSummary_StrNone(last_error) ==
    IF last_error # None THEN last_error.msg ELSE "None"
DegradedSummary(last_error) ==
    IF last_error # None THEN last_error.msg ELSE MaxAttemptsExceeded

\* {user: UserFeedback(summary=user, emoji="") for user in request.users}
DegradedFeedback(users) ==
    [u \in Range(users) |-> UserFeedback(u, "")]

DegradedResponse(last_error, users) ==
    ConversationAnalysisResponse(DegradedSummary(last_error), DegradedFeedback(users))

\* core.analyse_chat(request.context_type, request.messages, request.users):
\* positional arguments against (context_type, users, messages, model, chunk_size)
CoreArgsOfRequest(request) ==
    [context_type |-> request.context_type,
     users |-> request.messages,
     messages |-> request.users,
     model |-> MISTRAL_MODEL,
     chunk_size |-> DefaultChunkSize]

\* except ValueError as e
Catches_Everything(e) == TRUE
Catches_NoSubclass(e) == e.type = "ValueError"
Catches_OnlyValidation(e) == e.type = "ValidationError"
Catches(e) == IsValueError(e)

\* ------------------------------------------------------------------ state
VARIABLES
    AVAILABLE_CONTEXTS, \* config.AVAILABLE_CONTEXTS: the list of registered context names
    files,              \* CONTEXTS_DIR: context name -> stored text, or NoFile
    wpc,                \* position of the /context/ request in write_context
    wrequest,           \* the /context/ request being served
    wresponse,          \* the last answer of /context/
    writes,             \* number of /context/ requests so far
    write_log,          \* history: the writes that returned, and what they returned
    pc,                 \* position of the analysis request
    caller,             \* "api": /chat/ endpoint; "direct": a caller of core.analyse_chat
    request,            \* the ConversationAnalysisRequest
    attempts,           \* main.analyse_chat: attempts
    last_error,         \* main.analyse_chat: last_error
    response,           \* what the analysis call returned to its caller
    exception,          \* what the analysis call raised to its caller
    args,               \* core.analyse_chat: its parameters
    chunks,             \* core.analyse_chat: chunks
    i,                  \* core.analyse_chat: index of the chunk loop
    chunk_analyses,     \* core.analyse_chat: chunk_analyses
    api_messages,       \* core.analyse_chat: api_messages / merge_messages
    calls,              \* history: number of invocations of core.analyse_chat
    call_log,           \* history: the completion calls of the current invocation
    outcomes,           \* history: how each invocation of core.analyse_chat ended
    loads,              \* history: load_system_prompt calls of this invocation
    completions,        \* history: completion calls made since the start
    cpc,                \* clean-and-parse lines on their own: position
    chat_response,      \* clean-and-parse lines: the call and the response body
    document,           \* clean-and-parse lines: the slice handed to the validation
    cleaned,            \* clean-and-parse lines: the result, or the exception
    handled,            \* clean-and-parse lines: does `except ValueError` take it
    wline,              \* write_context line by line: the next statement, 0 when none runs
    lpc,                \* load_system_prompt line by line: position
    lrequest,           \* load_system_prompt line by line: the context type asked for
    lresult             \* load_system_prompt line by line: the text, or the exception

registry == <<AVAILABLE_CONTEXTS, files>>
writer == <<wpc, wrequest, wresponse, writes, write_log>>
wrapper == <<caller, request, attempts, last_error, response, exception>>
frame == <<args, chunks, i, chunk_analyses, api_messages>>
history == <<calls, call_log, outcomes>>
cleaner == <<cpc, chat_response, document, cleaned, handled>>
finer == <<wline, lpc, lrequest, lresult>>
vars == <<AVAILABLE_CONTEXTS, files, wpc, wrequest, wresponse, writes, write_log, pc, caller,
          request, attempts, last_error, response, exception, args, chunks, i,
          chunk_analyses, api_messages, calls, call_log, outcomes, loads, completions,
          cpc, chat_response, document, cleaned, handled,
          wline, lpc, lrequest, lresult>>

NoRequest == [context_type |-> "", messages |-> << >>, users |-> << >>,
              model |-> "", max_attempts |-> 0]
NoArgs == [context_type |-> "", users |-> << >>, messages |-> << >>,
           model |-> "", chunk_size |-> 0]
NoContextRequest == [context_type |-> "", context |-> ""]
NoContextResponse == [status |-> "none", available_contexts |-> << >>]
EmptyText == ""
NoLoad == [type |-> "none", msg |-> "", text |-> ""]
NoBody == [kind |-> "none", body |-> << >>]
NotCleaned == [ok |-> FALSE, value |-> None]
NoMessages == [system |-> [base |-> "", kind |-> "none"],
               user |-> [users |-> << >>, conversations |-> << >>]]

Models == {MISTRAL_MODEL, CustomModel}

\* the users lists a /chat/ request carries: none, two users, one user twice,
\* and more users than the default chunk size
RequestUsers ==
    {UserList(0), UserList(2), <<1, 1>>, UserList(DefaultChunkSize + 1)}

Requests ==
    [context_type : ContextTypes,
     messages : {MessageList(2)},
     users : RequestUsers,
     model : Models,
     max_attempts : 0..MaxAttempts]

DirectArgs ==
    [context_type : ContextTypes,
     users : {UserList(2)},
     messages : {MessageList(n) : n \in 0..MaxLen},
     model : Models,
     chunk_size : 1..MaxChunk]

Bodies == SeqsUpTo(Alphabet, MaxBody)

\* what the clean-up and the validation make of the bodies
ParseOutcomes == {ParseResponse(body) : body \in Bodies}

\* the registry after start-up: one context file, listed by config.py
Init ==
    /\ AVAILABLE_CONTEXTS = <<"party">>
    /\ files = [c \in ContextTypes |-> IF c = "party" THEN InitialText ELSE NoFile]
    /\ wpc = "idle"
    /\ wrequest = NoContextRequest
    /\ wresponse = NoContextResponse
    /\ writes = 0
    /\ write_log = << >>
    /\ pc = "idle"
    /\ caller = "none"
    /\ request = NoRequest
    /\ attempts = 0
    /\ last_error = None
    /\ response = NoResponse
    /\ exception = None
    /\ args = NoArgs
    /\ chunks = << >>
    /\ i = 0
    /\ chunk_analyses = << >>
    /\ api_messages = NoMessages
    /\ calls = 0
    /\ call_log = << >>
    /\ outcomes = << >>
    /\ loads = 0
    /\ completions = 0
    /\ cpc = "idle"
    /\ chat_response = NoBody
    /\ document = << >>
    /\ cleaned = NotCleaned
    /\ handled = FALSE
    /\ wline = 0
    /\ lpc = "idle"
    /\ lrequest = ""
    /\ lresult = NoLoad

\* ---------------------------------------------------- core/utils.py, /context/
\* post_context -> write_context: open(..., "w") and f.write(context)
StoreContext ==
    /\ wpc = "idle"
    /\ writes < MaxWrites
    /\ \E ct \in ContextTypes, text \in Texts :
        /\ wrequest' = [context_type |-> ct, context |-> text]
        /\ files' = [files EXCEPT ![ct] = text]
    /\ wpc' = "stored"
    /\ writes' = writes + 1
    /\ UNCHANGED <<AVAILABLE_CONTEXTS, wresponse, write_log, pc, wrapper, frame, history, cleaner, loads, completions, finer>>

\* open(..., "w") fails: the error leaves write_context and post_context
StoreContextFails ==
    /\ wpc = "idle"
    /\ writes < MaxWrites
    /\ wresponse' = [status |-> PermissionDenied.type, available_contexts |-> << >>]
    /\ writes' = writes + 1
    /\ UNCHANGED <<registry, wpc, wrequest, write_log, pc, wrapper, frame, history, cleaner, loads, completions, finer>>

\* cf.AVAILABLE_CONTEXTS.append(context_type); return PostContextResponse(...)
RegisterContext_Forgets ==
    /\ wpc = "stored"
    /\ AVAILABLE_CONTEXTS' = AVAILABLE_CONTEXTS
    /\ wresponse' = [status |-> "ok", available_contexts |-> AVAILABLE_CONTEXTS']
    /\ write_log' = Append(write_log, [context_type |-> wrequest.context_type,
                                       available_contexts |-> AVAILABLE_CONTEXTS'])
    /\ wpc' = "idle"
    /\ wrequest' = NoContextRequest
    /\ UNCHANGED <<files, writes, pc, wrapper, frame, history, cleaner, loads, completions, finer>>

RegisterContext_Replaces ==
    /\ wpc = "stored"
    /\ AVAILABLE_CONTEXTS' = <<wrequest.context_type>>
    /\ wresponse' = [status |-> "ok", available_contexts |-> AVAILABLE_CONTEXTS']
    /\ write_log' = Append(write_log, [context_type |-> wrequest.context_type,
                                       available_contexts |-> AVAILABLE_CONTEXTS'])
    /\ wpc' = "idle"
    /\ wrequest' = NoContextRequest
    /\ UNCHANGED <<files, writes, pc, wrapper, frame, history, cleaner, loads, completions, finer>>

RegisterContext ==
    /\ wpc = "stored"
    /\ AVAILABLE_CONTEXTS' = Append(AVAILABLE_CONTEXTS, wrequest.context_type)
    /\ wresponse' = [status |-> "ok", available_contexts |-> AVAILABLE_CONTEXTS']
    /\ write_log' = Append(write_log, [context_type |-> wrequest.context_type,
                                       available_contexts |-> AVAILABLE_CONTEXTS'])
    /\ wpc' = "idle"
    /\ wrequest' = NoContextRequest
    /\ UNCHANGED <<files, writes, pc, wrapper, frame, history, cleaner, loads, completions, finer>>

\* -------------------------------------------------- how an invocation ends
\* core.analyse_chat raises e: caught by the retry loop, or it leaves the caller
Failed(e) == [type |-> e.type, msg |-> e.msg, result |-> NoResponse]
Ok(result) == [type |-> "ok", msg |-> "", result |-> result]

Raise_KeepFirst(e) ==
    /\ outcomes' = Append(outcomes, Failed(e))
    /\ IF caller = "api" /\ Catches(e)
       THEN /\ last_error' = IF last_error = None THEN e ELSE last_error
            /\ attempts' = attempts + 1
            /\ pc' = "loop"
            /\ UNCHANGED <<response, exception>>
       ELSE /\ exception' = e
            /\ pc' = "raised"
            /\ UNCHANGED <<attempts, last_error, response>>

Raise(e) ==
    /\ outcomes' = Append(outcomes, Failed(e))
    /\ IF caller = "api" /\ Catches(e)
       THEN /\ last_error' = e
            /\ attempts' = attempts + 1
            /\ pc' = "loop"
            /\ UNCHANGED <<response, exception>>
       ELSE /\ exception' = e
            /\ pc' = "raised"
            /\ UNCHANGED <<attempts, last_error, response>>

\* core.analyse_chat returns result, and so does its caller
Return_KeepLooping(result) ==
    /\ outcomes' = Append(outcomes, Ok(result))
    /\ response' = result
    /\ IF caller = "api"
       THEN attempts' = attempts + 1 /\ pc' = "loop"
       ELSE attempts' = attempts /\ pc' = "returned"
    /\ UNCHANGED <<last_error, exception>>

Return_FirstChunk(result) ==
    /\ response' = IF chunk_analyses # << >> THEN chunk_analyses[1] ELSE result
    /\ outcomes' = Append(outcomes, Ok(response'))
    /\ pc' = "returned"
    /\ UNCHANGED <<attempts, last_error, exception>>

Return(result) ==
    /\ outcomes' = Append(outcomes, Ok(result))
    /\ response' = result
    /\ pc' = "returned"
    /\ UNCHANGED <<attempts, last_error, exception>>

\* first lines of core.analyse_chat
EnterCore_KeepsResults(a) ==
    /\ args' = a
    /\ chunks' = Chunks(a.messages, a.chunk_size)
    /\ i' = IF i < Len(chunks') THEN i ELSE 0
    /\ chunk_analyses' = IF i < Len(chunks') THEN chunk_analyses ELSE << >>
    /\ api_messages' = NoMessages
    /\ calls' = calls + 1
    /\ call_log' = << >>
    /\ loads' = 0
    /\ pc' = IF IsSingleChunk(chunks') THEN "single_load"
             ELSE IF Len(chunks') > 0 THEN "chunk_load" ELSE "merge_load"

EnterCore(a) ==
    /\ args' = a
    /\ chunks' = Chunks(a.messages, a.chunk_size)
    /\ i' = 0
    /\ chunk_analyses' = << >>
    /\ api_messages' = NoMessages
    /\ calls' = calls + 1
    /\ call_log' = << >>
    /\ loads' = 0
    /\ pc' = IF IsSingleChunk(chunks') THEN "single_load"
             ELSE IF Len(chunks') > 0 THEN "chunk_load" ELSE "merge_load"

\* ------------------------------------------------------------ api/main.py
PostChat ==
    /\ pc = "idle"
    /\ \E r \in Requests : request' = r
    /\ caller' = "api"
    /\ attempts' = 0
    /\ last_error' = None
    /\ pc' = "loop"
    /\ UNCHANGED <<registry, writer, finer, cleaner, response, exception, frame, history, loads, completions>>

\* the loop test is true: try core.analyse_chat
Attempt ==
    /\ pc = "loop"
    /\ LoopCondition(attempts, request.max_attempts)
    /\ EnterCore(CoreArgsOfRequest(request))
    /\ UNCHANGED <<registry, writer, finer, cleaner, wrapper, outcomes, completions>>

\* the loop test is false: the placeholder response
GiveUp ==
    /\ pc = "loop"
    /\ ~LoopCondition(attempts, request.max_attempts)
    /\ response' = DegradedResponse(last_error, request.users)
    /\ pc' = "returned"
    /\ UNCHANGED <<registry, writer, finer, cleaner, caller, request, attempts, last_error, exception,
                   frame, history, loads, completions>>

\* a caller of core.analyse_chat other than the endpoint
DirectCall ==
    /\ pc = "idle"
    /\ caller' = "direct"
    /\ \E a \in DirectArgs : EnterCore(a)
    /\ UNCHANGED <<registry, writer, finer, cleaner, request, attempts, last_error, response, exception,
                   outcomes, completions>>

\* ------------------------------------------------------ core/analyser.py
\* load_system_prompt: the membership test, then the read of the file
IsAvailable_Always(context_type) == TRUE
IsAvailable(context_type) == context_type \in Range(AVAILABLE_CONTEXTS)
LoadError(context_type) ==
    IF ~IsAvailable(context_type) THEN ContextNotFound
    ELSE IF files[context_type] = NoFile THEN FileNotFound
    ELSE None
load_system_prompt(context_type) == files[context_type]

\* client.chat.complete(model=model, messages=api_messages, ...)
\* and, for the record, what the validation made of its response
Completion(kind, parsed) ==
    [kind |-> kind, model |-> args.model, messages |-> api_messages,
     output |-> IF parsed.ok THEN parsed.value ELSE NoResponse]

\* the load and the prompt building before a completion call; on an error of
\* the load the invocation ends
Load_Cached(system, user, next) ==
    IF loads = 0 /\ LoadError(args.context_type) # None
    THEN /\ Raise(LoadError(args.context_type))
         /\ loads' = loads + 1
         /\ UNCHANGED <<caller, request, frame, calls, call_log>>
    ELSE /\ api_messages' = [system |-> system, user |-> user]
         /\ pc' = next
         /\ loads' = 1
         /\ UNCHANGED <<wrapper, args, chunks, i, chunk_analyses, history>>

Load(system, user, next) ==
    IF LoadError(args.context_type) # None
    THEN /\ Raise(LoadError(args.context_type))
         /\ loads' = loads + 1
         /\ UNCHANGED <<caller, request, frame, calls, call_log>>
    ELSE /\ api_messages' = [system |-> system, user |-> user]
         /\ pc' = next
         /\ loads' = loads + 1
         /\ UNCHANGED <<wrapper, args, chunks, i, chunk_analyses, history>>

\* single chunk: system prompt and user prompt over all the messages
SingleLoad ==
    /\ pc = "single_load"
    /\ Load(SingleSystemPrompt(load_system_prompt(args.context_type)),
            format_user_prompt(args.users, args.messages),
            "single_call")
    /\ UNCHANGED <<registry, writer, finer, cleaner, completions>>

\* single chunk: the completion call, the clean-up and the validation
SingleCallStep ==
    /\ pc = "single_call"
    /\ \/ /\ Raise(TransportError)
          /\ UNCHANGED <<caller, request, frame, calls, call_log>>
       \/ \E parsed \in ParseOutcomes :
            /\ call_log' = Append(call_log, Completion("single", parsed))
            /\ IF parsed.ok
               THEN Return(parsed.value)
               ELSE Raise(parsed.value)
            /\ UNCHANGED <<caller, request, frame, calls>>
    /\ UNCHANGED <<registry, writer, finer, cleaner, loads>>

SingleCall == SingleCallStep /\ UNCHANGED completions
CountedSingleCall == SingleCallStep /\ completions' = completions + 1

\* chunk loop: prompts of chunk i
ChunkLoad ==
    /\ pc = "chunk_load"
    /\ Load(ChunkSystemPrompt(load_system_prompt(args.context_type), i, Len(chunks),
                              args.chunk_size, Len(args.messages)),
            format_user_prompt(args.users, ChunkAt(chunks, i)),
            "chunk_call")
    /\ UNCHANGED <<registry, writer, finer, cleaner, completions>>

\* chunk loop: the completion call of chunk i, the clean-up, the validation and
\* the append; then the next chunk, or the merge after the last one
ChunkCallStep ==
    /\ pc = "chunk_call"
    /\ \/ /\ Raise(TransportError)
          /\ UNCHANGED <<caller, request, frame, calls, call_log>>
       \/ \E parsed \in ParseOutcomes :
            /\ call_log' = Append(call_log, Completion("chunk", parsed))
            /\ IF parsed.ok
               THEN /\ chunk_analyses' = Append(chunk_analyses, parsed.value)
                    /\ i' = i + 1
                    /\ pc' = IF MoreChunks(i, chunks) THEN "chunk_load" ELSE "merge_load"
                    /\ UNCHANGED <<wrapper, args, chunks, api_messages, calls, outcomes>>
               ELSE /\ Raise(parsed.value)
                    /\ UNCHANGED <<caller, request, frame, calls>>
    /\ UNCHANGED <<registry, writer, finer, cleaner, loads>>

ChunkCall == ChunkCallStep /\ UNCHANGED completions
CountedChunkCall == ChunkCallStep /\ completions' = completions + 1

\* merge: merge_system_prompt, chunk_summaries, merge_user_prompt
MergeLoad ==
    /\ pc = "merge_load"
    /\ Load(MergeSystemPrompt(load_system_prompt(args.context_type), Len(chunk_analyses)),
            MergeUserPrompt(args.users, chunk_analyses),
            "merge_call")
    /\ UNCHANGED <<registry, writer, finer, cleaner, completions>>

\* merge: the completion call, the clean-up and the validation
MergeCallStep ==
    /\ pc = "merge_call"
    /\ \/ /\ Raise(TransportError)
          /\ UNCHANGED <<caller, request, frame, calls, call_log>>
       \/ \E parsed \in ParseOutcomes :
            /\ call_log' = Append(call_log, Completion("merge", parsed))
            /\ IF parsed.ok
               THEN Return(parsed.value)
               ELSE Raise(parsed.value)
            /\ UNCHANGED <<caller, request, frame, calls>>
    /\ UNCHANGED <<registry, writer, finer, cleaner, loads>>

MergeCall == MergeCallStep /\ UNCHANGED completions
CountedMergeCall == MergeCallStep /\ completions' = completions + 1

\* ---------------------------------------------------------- specification
ChatStep ==
    \/ PostChat
    \/ Attempt
    \/ GiveUp
    \/ DirectCall
    \/ SingleLoad
    \/ SingleCall
    \/ ChunkLoad
    \/ ChunkCall
    \/ MergeLoad
    \/ MergeCall

ContextStep ==
    \/ StoreContext
    \/ StoreContextFails
    \/ RegisterContext

Next == ChatStep \/ ContextStep

Spec == Init /\ [][Next]_vars

\* the handler of a request keeps running: every call it makes returns or raises
FairSpec == Spec /\ WF_vars(ChatStep)

\* the same program with its completion calls counted in `completions`
CountedChatStep ==
    \/ PostChat
    \/ Attempt
    \/ GiveUp
    \/ DirectCall
    \/ SingleLoad
    \/ CountedSingleCall
    \/ ChunkLoad
    \/ CountedChunkCall
    \/ MergeLoad
    \/ CountedMergeCall

CountedNext == CountedChatStep \/ ContextStep

CountedSpec == Init /\ [][CountedNext]_vars

\* ------------------------------------- the clean-and-parse lines on their own
\* The three copies of these lines (single call, chunk call, merge call) are
\* the same text; here they run step by step on every body of Bodies.
CallKinds == {"single", "chunk", "merge"}

\* chat_response = client.chat.complete(...).choices[0].message.content
ReceiveBody ==
    /\ cpc = "idle"
    /\ \E kind \in CallKinds, body \in Bodies :
          chat_response' = [kind |-> kind, body |-> body]
    /\ cpc' = "received"
    /\ UNCHANGED <<registry, writer, finer, pc, wrapper, frame, history, loads, completions, document, cleaned, handled>>

\* chat_response = chat_response[chat_response.index("{") : chat_response.rindex("}") + 1]
CleanBody ==
    /\ cpc = "received"
    /\ IF HasBraces(chat_response.body)
       THEN /\ document' = Extract(chat_response.body)
            /\ cpc' = "cleaned"
            /\ UNCHANGED <<cleaned, handled>>
       ELSE /\ cleaned' = [ok |-> FALSE, value |-> SubstringNotFound]
            /\ handled' = Catches(SubstringNotFound)
            /\ cpc' = "raised"
            /\ UNCHANGED document
    /\ UNCHANGED <<registry, writer, finer, pc, wrapper, frame, history, loads, completions, chat_response>>

\* ConversationAnalysisResponse.model_validate_json(chat_response)
ValidateDocument ==
    /\ cpc = "cleaned"
    /\ IF IsValidResult(document)
       THEN /\ cleaned' = [ok |-> TRUE, value |-> model_validate_json(document)]
            /\ cpc' = "returned"
            /\ UNCHANGED handled
       ELSE /\ cleaned' = [ok |-> FALSE, value |-> ValidationErrorOf(document)]
            /\ handled' = Catches(ValidationErrorOf(document))
            /\ cpc' = "raised"
    /\ UNCHANGED <<registry, writer, finer, pc, wrapper, frame, history, loads, completions, chat_response, document>>

CleanNext ==
    \/ ReceiveBody
    \/ CleanBody
    \/ ValidateDocument

CleanSpec == Init /\ [][CleanNext]_vars

\* ------------------- write_context and load_system_prompt, line by line
\* The statements of write_context in their order (utils.py lines 6, 7, 8), each
\* a step of its own, against a caller of load_system_prompt whose membership
\* test and file read are steps of their own.
WriteContextSteps_AppendFirst == <<"append", "open", "write">>
WriteContextSteps_AppendBeforeWrite == <<"open", "append", "write">>
WriteContextSteps == <<"open", "write", "append">>

analysis == <<pc, wrapper, frame, history, cleaner, loads, completions>>

StatementIs(name) ==
    /\ wline \in 1..Len(WriteContextSteps)
    /\ WriteContextSteps[wline] = name

WriteFailed(e) == [status |-> e.type, available_contexts |-> << >>]

\* post_context is called: write_context(request.context_type, request.context)
BeginWrite ==
    /\ wline = 0
    /\ writes < MaxLineWrites
    /\ \E ct \in ContextTypes, text \in Texts :
          wrequest' = [context_type |-> ct, context |-> text]
    /\ wline' = 1
    /\ writes' = writes + 1
    /\ UNCHANGED <<registry, wpc, wresponse, write_log, analysis, lpc, lrequest, lresult>>

\* open(pjoin(cf.CONTEXTS_DIR, context_type + ".md"), "w"): the file is there, empty
OpenFile ==
    /\ StatementIs("open")
    /\ files' = [files EXCEPT ![wrequest.context_type] = EmptyText]
    /\ wline' = wline + 1
    /\ UNCHANGED <<AVAILABLE_CONTEXTS, writer, analysis, lpc, lrequest, lresult>>

\* open raises: the error leaves write_context and post_context
OpenFileFails ==
    /\ StatementIs("open")
    /\ wresponse' = WriteFailed(PermissionDenied)
    /\ wline' = 0
    /\ UNCHANGED <<registry, wpc, wrequest, writes, write_log, analysis, lpc, lrequest, lresult>>

\* f.write(context), and the close at the end of the with block
WriteFile ==
    /\ StatementIs("write")
    /\ files' = [files EXCEPT ![wrequest.context_type] = wrequest.context]
    /\ wline' = wline + 1
    /\ UNCHANGED <<AVAILABLE_CONTEXTS, writer, analysis, lpc, lrequest, lresult>>

\* f.write raises: the file stays as open left it, the error leaves write_context
WriteFileFails ==
    /\ StatementIs("write")
    /\ wresponse' = WriteFailed(DiskFull)
    /\ wline' = 0
    /\ UNCHANGED <<registry, wpc, wrequest, writes, write_log, analysis, lpc, lrequest, lresult>>

\* cf.AVAILABLE_CONTEXTS.append(context_type)
AppendContext ==
    /\ StatementIs("append")
    /\ AVAILABLE_CONTEXTS' = Append(AVAILABLE_CONTEXTS, wrequest.context_type)
    /\ wline' = wline + 1
    /\ UNCHANGED <<files, writer, analysis, lpc, lrequest, lresult>>

\* return PostContextResponse(available_contexts=cf.AVAILABLE_CONTEXTS)
ReturnContexts ==
    /\ wline = Len(WriteContextSteps) + 1
    /\ wresponse' = [status |-> "ok", available_contexts |-> AVAILABLE_CONTEXTS]
    /\ write_log' = Append(write_log, [context_type |-> wrequest.context_type,
                                       available_contexts |-> AVAILABLE_CONTEXTS])
    /\ wline' = 0
    /\ UNCHANGED <<registry, wpc, wrequest, writes, analysis, lpc, lrequest, lresult>>

LoadRaised(e) == [type |-> e.type, msg |-> e.msg, text |-> EmptyText]
LoadReturned(text) == [type |-> "ok", msg |-> "", text |-> text]

\* load_system_prompt: if context_type not in cf.AVAILABLE_CONTEXTS: raise ValueError
CheckMembership ==
    /\ lpc \in {"idle", "done"}
    /\ \E ct \in ContextTypes :
          /\ lrequest' = ct
          /\ IF IsAvailable(ct)
             THEN lpc' = "checked" /\ lresult' = NoLoad
             ELSE lpc' = "done" /\ lresult' = LoadRaised(ContextNotFound)
    /\ UNCHANGED <<registry, writer, analysis, wline>>

\* load_system_prompt: with open(..., "r") as f: return f.read()
ReadFile ==
    /\ lpc = "checked"
    /\ lresult' = IF files[lrequest] = NoFile
                  THEN LoadRaised(FileNotFound)
                  ELSE LoadReturned(files[lrequest])
    /\ lpc' = "done"
    /\ UNCHANGED <<registry, writer, analysis, wline, lrequest>>

WriteNext ==
    \/ BeginWrite
    \/ OpenFile
    \/ OpenFileFails
    \/ WriteFile
    \/ WriteFileFails
    \/ AppendContext
    \/ ReturnContexts
    \/ CheckMembership
    \/ ReadFile

WriteSpec == Init /\ [][WriteNext]_vars

\* ----------------------------------------------------------------- claims
\* the error kinds the retry loop treats as retryable: ContextNotFound,
\* MalformedModelOutput (no brace, or not JSON) and SchemaValidationError
RetryableKinds == {Failed(ContextNotFound), Failed(SubstringNotFound),
                   Failed(InvalidJson), Failed(SchemaMismatch)}

Finished == Len(outcomes)
LastOutcome == outcomes[Len(outcomes)]
AllAttemptsFailedRetryable == \A j \in 1..Len(outcomes) : outcomes[j] \in RetryableKinds
Succeeded == outcomes # << >> /\ LastOutcome.type = "ok"
FailedNonRetryable ==
    outcomes # << >> /\ LastOutcome.type # "ok" /\ LastOutcome \notin RetryableKinds

\* C1: with max_attempts >= 1 and every attempt failing with a retryable error,
\* the /chat/ loop invokes core.analyse_chat exactly max_attempts times (never
\* more while it runs, exactly that many when it is over) and returns a response
\* instead of raising.
C1_ExactlyMaxAttempts ==
    (caller = "api" /\ request.max_attempts >= 1 /\ AllAttemptsFailedRetryable) =>
        /\ calls <= request.max_attempts
        /\ pc # "raised"
        /\ exception = None
        /\ (pc = "loop" => calls = attempts)
        /\ (pc = "returned" => calls = request.max_attempts /\ response # NoResponse)

C1_Witness ==
    /\ caller = "api" /\ pc = "returned"
    /\ request.max_attempts = 2
    /\ Finished = 2 /\ AllAttemptsFailedRetryable

\* C2: when all max_attempts >= 1 attempts failed with retryable errors, the
\* response has the message of the last caught error as its summary, and its
\* users_feedback has exactly the requested users as keys, each mapped to
\* {summary: the user, emoji: ""}.
C2_DegradedResponse ==
    (caller = "api" /\ pc = "returned" /\ request.max_attempts >= 1
        /\ AllAttemptsFailedRetryable) =>
        /\ response.summary = LastOutcome.msg
        /\ DOMAIN response.users_feedback = Range(request.users)
        /\ \A u \in Range(request.users) :
              response.users_feedback[u] = [summary |-> u, emoji |-> ""]

C2_Witness ==
    /\ caller = "api" /\ pc = "returned"
    /\ request.max_attempts >= 2 /\ AllAttemptsFailedRetryable
    /\ outcomes[1].msg # LastOutcome.msg
    /\ response.summary = LastOutcome.msg
    /\ Len(request.users) = 2 /\ Cardinality(DOMAIN response.users_feedback) = 2

\* C3: when the attempts 1..n-1 fail with retryable errors and attempt n
\* succeeds, the /chat/ loop returns exactly the value of attempt n, and
\* core.analyse_chat has been invoked n times, in every state from then on.
C3_ReturnsFirstSuccess ==
    (caller = "api" /\ Succeeded) =>
        /\ pc = "returned"
        /\ response = LastOutcome.result
        /\ calls = Finished
        /\ Finished <= request.max_attempts
        /\ \A j \in 1..(Finished - 1) : outcomes[j] \in RetryableKinds

C3_Witness ==
    /\ caller = "api" /\ Succeeded /\ pc = "returned"
    /\ Finished = 3 /\ request.max_attempts = 3
    /\ outcomes[1] = Failed(ContextNotFound) /\ outcomes[2] = Failed(ContextNotFound)
    /\ response = ResultOf("b")

\* C4: a non-retryable failure in an attempt leaves the /chat/ loop at once: it
\* is the exception of the request, no attempt follows it and no response is
\* produced, however many attempts remain.
C4_NonRetryablePropagates ==
    (caller = "api" /\ FailedNonRetryable) =>
        /\ pc = "raised"
        /\ Failed(exception) = LastOutcome
        /\ calls = Finished
        /\ response = NoResponse

C4_Witness ==
    /\ caller = "api" /\ pc = "raised"
    /\ exception = TransportError
    /\ Finished = 1 /\ request.max_attempts = 3

WellFormed(r) ==
    /\ DOMAIN r = {"summary", "users_feedback"}
    /\ r # NoResponse
    /\ \A u \in DOMAIN r.users_feedback :
          DOMAIN r.users_feedback[u] = {"summary", "emoji"}

\* C5: a /chat/ request whose attempts fail only with retryable errors always
\* ends, and ends with a well-formed response (an analysis or the placeholder);
\* an exception of a retryable kind never leaves the endpoint.  What else can
\* end a request is a non-retryable failure.
Resolved ==
    \/ pc = "returned" /\ WellFormed(response)
    \/ pc = "raised" /\ FailedNonRetryable /\ Failed(exception) = LastOutcome

C5_AlwaysResolves == (caller = "api") ~> Resolved

C5_Witness ==
    /\ caller = "api" /\ pc = "returned" /\ WellFormed(response)
    /\ Finished = 3
    /\ outcomes[1] = Failed(ContextNotFound)
    /\ outcomes[2] = Failed(SchemaMismatch)
    /\ outcomes[3] = Failed(InvalidJson)

\* C6: with max_attempts = 0 the /chat/ loop never invokes core.analyse_chat and
\* returns, without raising, the placeholder whose summary is the fixed message
\* and whose users_feedback maps every requested user to {summary: the user,
\* emoji: ""}.
C6_ZeroAttempts ==
    (caller = "api" /\ request.max_attempts = 0) =>
        /\ calls = 0
        /\ outcomes = << >>
        /\ call_log = << >>
        /\ exception = None
        /\ pc \in {"loop", "returned"}
        /\ (pc = "returned" =>
              response = [summary |-> "Max attempts exceeded",
                          users_feedback |->
                              [u \in Range(request.users) |-> [summary |-> u, emoji |-> ""]]])

C6_Witness ==
    /\ caller = "api" /\ pc = "returned"
    /\ request.max_attempts = 0
    /\ Len(request.users) = 2
    /\ response.summary = "Max attempts exceeded"

CeilDiv(x, y) == (x + y - 1) \div y

\* C7: the chunks of L messages with chunk size C > 0 are ceil(L/C) many, all
\* but the last have length C, the last has between 1 and C messages, and their
\* concatenation in order is the message sequence.
C7_ChunkPlan ==
    (calls > 0) =>
        LET L == Len(args.messages)
            C == args.chunk_size
            k == Len(chunks)
        IN  /\ C > 0
            /\ k = CeilDiv(L, C)
            /\ \A j \in 1..(k - 1) : Len(chunks[j]) = C
            /\ (k > 0 => Len(chunks[k]) \in 1..C)
            /\ Flatten(chunks) = args.messages

C7_Witness ==
    /\ calls > 0
    /\ Len(args.messages) = 4 /\ args.chunk_size = 3
    /\ chunks = <<<<101, 102, 103>>, <<104>>>>

\* C8: with L <= C messages (L = 0 included), a successful analysis attempt
\* issues exactly one completion call, and it is not the merge call.
C8_SingleCallNoMerge ==
    (Succeeded /\ Len(args.messages) <= args.chunk_size) =>
        /\ Len(call_log) = 1
        /\ \A j \in 1..Len(call_log) : call_log[j].kind # "merge"

\* C9: with k > 1 chunks, a successful analysis attempt issues exactly k + 1
\* completion calls: k chunk calls, then one merge call.
C9_ChunkCallsThenMerge ==
    (Succeeded /\ Len(chunks) > 1) =>
        /\ Len(call_log) = Len(chunks) + 1
        /\ \A j \in 1..Len(chunks) : call_log[j].kind = "chunk"
        /\ call_log[Len(chunks) + 1].kind = "merge"
        /\ \A j \in 1..Len(call_log) : call_log[j].output # NoResponse

C9_Witness ==
    /\ Succeeded /\ Len(chunks) = 3
    /\ Len(call_log) = 4 /\ call_log[4].kind = "merge"

\* C10: the merge user prompt has one section per chunk, labelled 1..k in chunk
\* order, and section j carries the serialized validated output of the j-th
\* completion call, which is the call of chunk j.
C10_MergePromptOrder ==
    (pc = "merge_call") =>
        LET sections == api_messages.user.sections
            k == Len(chunks)
        IN  /\ Len(sections) = k
            /\ Len(call_log) = k
            /\ \A j \in 1..k :
                  /\ sections[j].label = j
                  /\ call_log[j].messages.user.conversations = chunks[j]
                  /\ sections[j].body = <<"{", call_log[j].output.summary, "}">>
                  /\ ParseResponse(sections[j].body) =
                        [ok |-> TRUE, value |-> call_log[j].output]

C10_Witness ==
    /\ pc = "merge_call" /\ Len(chunks) = 3
    /\ Len(api_messages.user.sections) = 3
    /\ call_log[1].output = ResultOf("a")
    /\ call_log[2].output = ResultOf("b")
    /\ call_log[3].output = ResultOf("b")

\* ---------------------------------------------------- claims on the cleaning
\* the slice has been handed to model_validate_json (which accepted or refused it)
HandedToValidation ==
    \/ cpc \in {"cleaned", "returned"}
    \/ cpc = "raised" /\ cleaned.value.type = "ValidationError"

Positions(s, c) == {j \in 1..Len(s) : s[j] = c}

\* doc is the part of body that starts at its first "{" and ends at its last "}"
IsBraceSubstring(doc, body) ==
    \E lo \in 1..Len(body), hi \in 1..Len(body) :
        /\ lo <= hi
        /\ body[lo] = "{" /\ \A h \in 1..(lo - 1) : body[h] # "{"
        /\ body[hi] = "}" /\ \A h \in (hi + 1)..Len(body) : body[h] # "}"
        /\ Len(doc) = hi - lo + 1
        /\ \A h \in 1..Len(doc) : doc[h] = body[lo + h - 1]

FirstOpenBeforeLastClose(body) ==
    \E lo \in Positions(body, "{"), hi \in Positions(body, "}") : lo < hi

\* C11 as stated: for every response body with at least one "{" and at least
\* one "}", the document handed to the validation is the substring of the body
\* from its first "{" to its last "}" inclusive.
C11_InclusiveSubstring ==
    HandedToValidation => IsBraceSubstring(document, chat_response.body)

\* C11 amended: when some "{" of the body stands before some "}", the document
\* handed to the validation is the substring from the first "{" to the last "}"
\* inclusive, the text before and after being dropped; when every "}" stands
\* before every "{", the document handed to the validation is the empty string.
C11_InclusiveSubstringOrEmpty ==
    HandedToValidation =>
        IF FirstOpenBeforeLastClose(chat_response.body)
        THEN IsBraceSubstring(document, chat_response.body)
        ELSE document = << >>

\* noise{a}trailer yields {a}
C11_Witness ==
    /\ cpc = "returned"
    /\ chat_response.body = <<"n", "{", "a", "}", "n">>
    /\ document = <<"{", "a", "}">>

CleaningDone == cpc \in {"returned", "raised"}

\* the body has no "{", or no "}", or what lies between its first "{" and its
\* last "}" is not JSON (nothing lies between them when the last "}" comes first)
NoBrace(body) == Positions(body, "{") = {} \/ Positions(body, "}") = {}
Malformed(body) ==
    \/ NoBrace(body)
    \/ ~FirstOpenBeforeLastClose(body)
    \/ \E lo \in Positions(body, "{"), hi \in Positions(body, "}") :
          /\ \A h \in Positions(body, "{") : lo <= h
          /\ \A h \in Positions(body, "}") : h <= hi
          /\ ~IsJsonObject(SubSeq(body, lo, hi))

\* C12: a response body with no "{", or no "}", or whose brace-delimited part is
\* not valid JSON (the last "}" before the first "{" included) gives no result:
\* the clean-and-parse lines raise, the exception is a ValueError (str.index /
\* str.rindex) or a ValidationError (model_validate_json), and the retry loop's
\* `except ValueError` takes it; the same for the single, chunk and merge call.
C12_MalformedIsRetryable ==
    CleaningDone /\ Malformed(chat_response.body) =>
        /\ cpc = "raised"
        /\ ~cleaned.ok
        /\ cleaned.value =
              IF NoBrace(chat_response.body) THEN SubstringNotFound ELSE InvalidJson
        /\ handled
        /\ Failed(cleaned.value) \in RetryableKinds

C12_Witness ==
    /\ cpc = "raised"
    /\ chat_response = [kind |-> "merge", body |-> <<"}", "{">>]
    /\ cleaned = [ok |-> FALSE, value |-> InvalidJson]
    /\ handled

\* ------------------------------------------- claims on the endpoint's request
InCore == caller = "api" /\ calls > 0

\* the message chunks placed in the user prompts of the chunk-level calls so far
PromptedChunks ==
    [j \in 1..Len(call_log) |-> call_log[j].messages.user.conversations]

\* C13: through /chat/ the sequence the chunk planner splits is request.messages,
\* the chunks placed in the chunk-level user prompts are, in call order, the
\* chunks of request.messages, and the users of every prompt are request.users.
C13_RequestOrderPreserved ==
    InCore =>
        /\ args.messages = request.messages
        /\ Flatten(chunks) = request.messages
        /\ args.users = request.users
        /\ \A j \in 1..Len(call_log) :
              /\ call_log[j].messages.user.users = request.users
              /\ call_log[j].kind # "merge" =>
                    Flatten(SubSeq(PromptedChunks, 1, j))
                      = SubSeq(request.messages, 1, Len(Flatten(SubSeq(PromptedChunks, 1, j))))

\* C14: every completion call made for a /chat/ request uses the request's model
\* identifier (request.model is the default when the request leaves it out).
C14_RequestModelUsed ==
    InCore =>
        /\ args.model = request.model
        /\ \A j \in 1..Len(call_log) : call_log[j].model = request.model

\* ------------------------------------------------- claims on the registry
LoadPositions == {"single_load", "chunk_load", "merge_load"}
WrittenTypes == {write_log[j].context_type : j \in 1..Len(write_log)}

\* this step is a context load that fails the membership check
LoadNotFound ==
    /\ pc \in LoadPositions
    /\ Len(outcomes') = Len(outcomes) + 1
    /\ outcomes'[Len(outcomes')] = Failed(ContextNotFound)

\* C15: a context write that returns gives back the list of available context
\* identifiers as it is after the write, the list contains the written
\* identifier, and no context load of that identifier that starts after the
\* write has returned fails the membership check.
C15_WrittenContextLoads ==
    /\ [](\A j \in 1..Len(write_log) :
            /\ write_log[j].context_type \in Range(write_log[j].available_contexts)
            /\ IsAvailable(write_log[j].context_type)
            /\ LoadError(write_log[j].context_type) # ContextNotFound)
    /\ [][/\ Len(write_log') > Len(write_log) =>
               /\ wresponse'.available_contexts = AVAILABLE_CONTEXTS'
               /\ write_log'[Len(write_log')].available_contexts = AVAILABLE_CONTEXTS'
               /\ AVAILABLE_CONTEXTS' # AVAILABLE_CONTEXTS
          /\ args.context_type \in WrittenTypes => ~LoadNotFound]_vars

\* a load of "work" fails before the write of "work" and passes after it
C15_Witness ==
    /\ caller = "api"
    /\ request.context_type = "work"
    /\ WrittenTypes = {"work"}
    /\ Len(outcomes) = 2
    /\ outcomes[1] = Failed(ContextNotFound)
    /\ outcomes[2].type = "ok"

CallPositions == {"single_call", "chunk_call", "merge_call"}
AfterCore == {"loop", "returned", "raised"}
Unregistered == args.context_type \notin Range(AVAILABLE_CONTEXTS)

\* this step ends the invocation with ContextNotFound before any completion call
EndsWithContextNotFound ==
    /\ outcomes' = Append(outcomes, Failed(ContextNotFound))
    /\ Failed(ContextNotFound) \in RetryableKinds
    /\ call_log' = << >>
    /\ IF caller = "api"
       THEN pc' = "loop" /\ attempts' = attempts + 1 /\ last_error' = ContextNotFound
       ELSE pc' = "raised" /\ exception' = ContextNotFound

\* C16: a context load of an identifier that is not in the registered list ends
\* the invocation with ContextNotFound, which the retry loop takes as one failed
\* attempt, and no completion call follows the load; while the identifier is
\* unregistered, the attempt has made no completion call, however many messages
\* and chunks there are.
C16_UnregisteredFailsBeforeCall ==
    /\ [](calls > 0 /\ Unregistered =>
            /\ call_log = << >>
            /\ pc \notin CallPositions
            /\ pc \in AfterCore => LastOutcome = Failed(ContextNotFound))
    /\ [][Unregistered /\ pc \in LoadPositions /\ pc' # pc => EndsWithContextNotFound]_vars

\* a request over two chunks whose context is not registered: one failed attempt,
\* no completion call
C16_Witness ==
    /\ caller = "api"
    /\ Unregistered
    /\ Len(chunks) = 2
    /\ pc = "loop"
    /\ attempts = 1
    /\ last_error = ContextNotFound
    /\ call_log = << >>

\* ------------------------------------------------ claims on the call order
InAttempt == calls > 0
Validated(entry) == entry.output # NoResponse

\* C17: in an attempt over k > 1 chunks the completion calls are made one at a
\* time in chunk order: the j-th call is the call of chunk j, it is made only
\* when the responses of chunks 1..j-1 have all been received and validated, and
\* the merge call is the (k+1)-th call, made only after k validated chunk calls.
C17_OneAtATimeInChunkOrder ==
    InAttempt /\ Len(chunks) > 1 =>
        /\ Len(call_log) <= Len(chunks) + 1
        /\ \A j \in 1..Len(call_log) :
              /\ j <= Len(chunks) =>
                    /\ call_log[j].kind = "chunk"
                    /\ call_log[j].messages.system.index = j
                    /\ call_log[j].messages.user.conversations = chunks[j]
              /\ j = Len(chunks) + 1 => call_log[j].kind = "merge"
              /\ j < Len(call_log) => Validated(call_log[j])
        /\ pc \in {"chunk_load", "chunk_call"} =>
              /\ Len(call_log) = i
              /\ i < Len(chunks)
              /\ \A j \in 1..i : Validated(call_log[j]) /\ chunk_analyses[j] = call_log[j].output
        /\ pc = "chunk_call" => api_messages.user.conversations = chunks[i + 1]
        /\ pc \in {"merge_load", "merge_call"} =>
              /\ Len(call_log) = Len(chunks)
              /\ \A j \in 1..Len(chunks) : Validated(call_log[j])

\* three chunks: three chunk calls in order, then the merge call
C17_Witness ==
    /\ pc = "returned"
    /\ Len(chunks) = 3
    /\ Len(call_log) = 4
    /\ \A j \in 1..3 : call_log[j].kind = "chunk" /\ call_log[j].messages.user.conversations = chunks[j]
    /\ call_log[4].kind = "merge"

LastCall == call_log[Len(call_log)]

\* C18: the result of a successful attempt is the validated output of the last
\* completion call of the attempt: the single call when there is one chunk, the
\* merge call (the (k+1)-th call) when there are k > 1 chunks.
C18_ResultIsLastCallOutput ==
    Succeeded /\ pc = "returned" =>
        /\ call_log # << >>
        /\ Validated(LastCall)
        /\ LastOutcome.result = LastCall.output
        /\ response = LastCall.output
        /\ Len(chunks) = 1 => Len(call_log) = 1 /\ LastCall.kind = "single"
        /\ Len(chunks) > 1 => Len(call_log) = Len(chunks) + 1 /\ LastCall.kind = "merge"

\* two chunks whose results differ from the merged result, which is returned
C18_Witness ==
    /\ Succeeded /\ pc = "returned"
    /\ Len(chunks) = 2
    /\ call_log[1].output = ResultOf("a")
    /\ call_log[2].output = ResultOf("a")
    /\ call_log[3].output = ResultOf("b")
    /\ response = ResultOf("b")

\* a step of the analysis (of the endpoint or of core.analyse_chat)
AnalysisStep == pc' # pc \/ outcomes' # outcomes \/ call_log' # call_log

\* the last completion call returned a body that the clean-and-parse lines refused
LastCallRefused == call_log # << >> /\ ~Validated(LastCall)

\* C19: the context is loaded once per completion call (a load before the single
\* call, before each chunk call and before the merge call, k + 1 loads in a
\* successful attempt over k > 1 chunks), and no step of an analysis changes the
\* registered list or the stored context texts.
C19_OneLoadPerCallRegistryUntouched ==
    /\ [](InAttempt =>
            /\ pc \in LoadPositions => loads = Len(call_log)
            /\ pc \in CallPositions => loads = Len(call_log) + 1
            /\ pc \in AfterCore /\ Succeeded => loads = Len(call_log)
            /\ pc \in AfterCore /\ Succeeded /\ Len(chunks) = 1 => loads = 1
            /\ pc \in AfterCore /\ Succeeded /\ Len(chunks) > 1 => loads = Len(chunks) + 1
            /\ pc \in AfterCore /\ ~Succeeded =>
                  loads = Len(call_log) + (IF LastCallRefused THEN 0 ELSE 1))
    /\ [][AnalysisStep => UNCHANGED registry]_vars

\* three chunks analysed and merged: four loads, the registry as at start-up
C19_Witness ==
    /\ pc = "returned" /\ Succeeded
    /\ Len(chunks) = 3
    /\ loads = 4
    /\ AVAILABLE_CONTEXTS = <<"party">>
    /\ files["party"] = InitialText

\* ------------------------------------------------------ claims on the retry
Running == pc \in LoadPositions \cup CallPositions

\* a step of an attempt that has not ended makes the completion call
CallInRunningAttempt ==
    /\ pc \in CallPositions
    /\ calls' = calls
    /\ Len(outcomes) = calls - 1

\* the attempt ends here: control is back in the retry loop or out of the handler
AttemptOver == pc' \in {"loop", "raised"} /\ Len(outcomes') = calls'

\* a new attempt starts with no chunk result, at the first chunk
StartsAfresh ==
    /\ chunk_analyses' = << >>
    /\ i' = 0
    /\ call_log' = << >>
    /\ pc' \in LoadPositions
    /\ Len(chunks') > 1 => pc' = "chunk_load"

\* C20: a retry runs a whole attempt again. A failed call ends its attempt (no
\* later chunk call, no merge call in it), the next attempt starts with no chunk
\* result at chunk 1, and a request over k chunks makes at most
\* max_attempts * (k + 1) completion calls.
C20_RetryRunsWholeAttempt ==
    /\ [](InAttempt =>
            /\ Running => Len(outcomes) = calls - 1
            /\ pc \in AfterCore => Len(outcomes) = calls
            /\ Len(call_log) <= Len(chunks) + 1
            /\ Len(chunk_analyses) <= Len(call_log)
            /\ \A j \in 1..Len(chunk_analyses) : chunk_analyses[j] = call_log[j].output
            /\ caller = "api" =>
                  /\ calls <= request.max_attempts
                  /\ completions <= request.max_attempts * (Len(chunks) + 1))
    /\ [][/\ completions' # completions => CallInRunningAttempt
          /\ Len(outcomes') > Len(outcomes) /\ outcomes'[Len(outcomes')].type # "ok" => AttemptOver
          /\ calls' # calls => StartsAfresh]_vars

\* two chunks: the first attempt got the result of chunk 1 and failed at chunk 2;
\* the second attempt is at the call of chunk 1 again, with nothing kept
C20_Witness ==
    /\ caller = "api"
    /\ Len(chunks) = 2
    /\ calls = 2
    /\ completions = 2
    /\ outcomes = <<Failed(InvalidJson)>>
    /\ pc = "chunk_call"
    /\ i = 0
    /\ chunk_analyses = << >>
    /\ call_log = << >>
    /\ api_messages.user.conversations = chunks[1]

\* ------------------------------------------- claims on writes racing requests
\* the request asks for a context whose write has not returned
BeforeWrite == caller = "api" /\ request.context_type \notin WrittenTypes

\* the request is over: a response (genuine or placeholder), or the completion
\* service's own failure
EndedInResult == pc = "returned" /\ WellFormed(response)
ServiceFailed == pc = "raised" /\ exception = TransportError

\* an attempt of the request begins
AttemptBegins == caller' = "api" /\ calls' = calls + 1

\* C21: a context write racing a request for the same identifier. A load of the
\* request fails with ContextNotFound only while the write has not returned, and
\* the failure is one failed attempt, never an error of the request; an attempt
\* that begins after the write returned finds the identifier registered; and
\* the request ends with a genuine or placeholder response (or with the
\* completion service's own failure), whenever the write happens.
C21_RegistrationRace ==
    /\ [](caller = "api" /\ pc = "raised" => exception = TransportError)
    /\ [][/\ LoadNotFound =>
               /\ args.context_type \notin WrittenTypes
               /\ caller = "api" => pc' = "loop" /\ attempts' = attempts + 1
          /\ AttemptBegins /\ request.context_type \in WrittenTypes =>
               args'.context_type \in Range(AVAILABLE_CONTEXTS')]_vars
    /\ (BeforeWrite ~> (EndedInResult \/ ServiceFailed))

\* a request for "work" over two chunks: its first attempt fails with
\* ContextNotFound, the write of "work" returns, its second attempt sees the
\* context and gives the merged result
C21_Witness ==
    /\ caller = "api"
    /\ request.context_type = "work"
    /\ request.max_attempts = 2
    /\ Len(chunks) = 2
    /\ Len(outcomes) = 2
    /\ outcomes[1] = Failed(ContextNotFound)
    /\ WrittenTypes = {"work"}
    /\ attempts = 1
    /\ EndedInResult
    /\ Len(call_log) = 3
    /\ response = LastCall.output

\* C22: the registered list only grows. Every step of the program (analysis,
\* retry, context write) keeps each entry of the list at its place, so an
\* identifier that passes the membership check passes it ever after.
C22_RegistryOnlyGrows ==
    [][/\ Len(AVAILABLE_CONTEXTS') >= Len(AVAILABLE_CONTEXTS)
       /\ SubSeq(AVAILABLE_CONTEXTS', 1, Len(AVAILABLE_CONTEXTS)) = AVAILABLE_CONTEXTS
       /\ \A ct \in ContextTypes :
             ct \in Range(AVAILABLE_CONTEXTS) => ct \in Range(AVAILABLE_CONTEXTS')
       /\ \A ct \in ContextTypes :
             LoadError(ct) # ContextNotFound => LoadError(ct)' # ContextNotFound]_vars

\* a request for "party" past the membership check of its second attempt, with
\* "work" registered by a context write
C22_Witness ==
    /\ caller = "api"
    /\ args.context_type = "party"
    /\ AVAILABLE_CONTEXTS = <<"party", "work">>
    /\ Len(outcomes) = 1
    /\ outcomes[1] = Failed(InvalidJson)
    /\ pc \in CallPositions
    /\ calls = 2

\* ------------------------------------- claims on write_context line by line
\* the list as config.py builds it at start-up, and what write_context added
StartupContexts == <<"party">>
AddedByWrites ==
    {AVAILABLE_CONTEXTS[j] : j \in (Len(StartupContexts) + 1)..Len(AVAILABLE_CONTEXTS)}

\* C23: write_context stores the text before it registers the identifier: when
\* the identifier is appended its file holds the text, every identifier that
\* write_context appended has a file in every reachable state, and a load that
\* passed the membership check for such an identifier finds the file.
C23_StoredBeforeRegistered ==
    /\ [](/\ \A ct \in AddedByWrites : files[ct] # NoFile
          /\ lpc = "checked" /\ lrequest \in AddedByWrites => files[lrequest] # NoFile
          /\ lpc = "done" /\ lrequest \in AddedByWrites => lresult.type # FileNotFound.type)
    /\ [][AVAILABLE_CONTEXTS' # AVAILABLE_CONTEXTS =>
            files[wrequest.context_type] = wrequest.context]_vars

\* "work" was written and registered; a second write of "work" has opened the
\* file and not yet written it, and a load of "work" passed the membership
\* check and read the file in between: it returned (an empty text), not failed
C23_Witness ==
    /\ "work" \in AddedByWrites
    /\ StatementIs("write")
    /\ wrequest.context_type = "work"
    /\ lpc = "done"
    /\ lrequest = "work"
    /\ lresult = LoadReturned(EmptyText)

\* this step is a write_context that raises
WriteRaises == wline > 0 /\ wline' = 0 /\ wresponse'.status # "ok"

\* the list is the start-up list followed by one entry per write that got as
\* far as the append (one more than the writes returned, while a write is
\* between its append and its return)
ListedByWrites ==
    /\ SubSeq(AVAILABLE_CONTEXTS, 1, Len(StartupContexts)) = StartupContexts
    /\ Len(AVAILABLE_CONTEXTS) = Len(StartupContexts) + Len(write_log)
                                   + (IF wline = Len(WriteContextSteps) + 1 THEN 1 ELSE 0)
    /\ \A j \in 1..Len(write_log) :
          AVAILABLE_CONTEXTS[Len(StartupContexts) + j] = write_log[j].context_type

\* C24: when storing the text fails (the open or the write raises), the error
\* leaves write_context, nothing is returned, and the list of available
\* contexts is as it was before the write: the identifier is not registered.
C24_FailedWriteNotRegistered ==
    /\ []ListedByWrites
    /\ [][WriteRaises =>
            /\ AVAILABLE_CONTEXTS' = AVAILABLE_CONTEXTS
            /\ write_log' = write_log
            /\ wresponse'.status \in {PermissionDenied.type, DiskFull.type}
            /\ wresponse'.available_contexts = << >>]_vars

\* the write of "work" failed at f.write: the file is there, empty, and "work"
\* is not in the list
C24_Witness ==
    /\ wline = 0
    /\ wresponse = WriteFailed(DiskFull)
    /\ wrequest.context_type = "work"
    /\ files["work"] = EmptyText
    /\ AVAILABLE_CONTEXTS = StartupContexts
    /\ write_log = << >>

NoDuplicates(list) ==
    \A j \in 1..Len(list), h \in 1..Len(list) : list[j] = list[h] => j = h

\* C25: a context write is idempotent on the list of available contexts: each
\* identifier is at most once in the list, and in the list that the context
\* write endpoint returns, after any sequence of writes.
C25_WriteIdempotent ==
    /\ NoDuplicates(AVAILABLE_CONTEXTS)
    /\ NoDuplicates(wresponse.available_contexts)
====
